---- MODULE Spec2Model ----
(***************************************************************************)
(* Airbnb_Dashboard.py: a Streamlit script.  Every widget change reruns    *)
(* the whole script: load_data (memoized), the sidebar widgets, the filter *)
(* pipeline, st.session_state["df"] and the selected page's charts.        *)
(*                                                                         *)
(* A table is [columns, rows]; a row is a record of the columns the        *)
(* script reads, plus idx, the pandas index label read_csv gives the row.  *)
(* Numbers are held in units of 1/Scale, so that int() is a truncation.    *)
(***************************************************************************)
EXTENDS Integers, Sequences, FiniteSets, TLC

VARIABLES csv, cache, reads, df, w, session_df, out, pc

vars == <<csv, cache, reads, df, w, session_df, out, pc>>

\* ---------------------------------------------------------------- bounds
MaxRows == 3
MaxSessionRows == 2
MaxNum == 3
Scale == 2

\* ---------------------------------------------------------------- values
NaN == "NaN"
NaNNum == 0 - 1

All == "All"
SmallHosts == "Small Hosts (<=3 listings)"
BigHosts == "Big Hosts (>3 listings)"
HostTypes == {All, SmallHosts, BigHosts}

Pages ==
  {"Dashboard", "Market Supply", "Price Structure", "Demand & Occupancy",
   "Host Dynamics", "Feature Insights", "Statistical Correlation",
   "Geo Distribution", "Strategic Findings"}

OptionalColumns == {"availability_group", "host_is_big"}
RequiredColumns ==
  {"neighbourhood group", "room type", "country", "neighbourhood",
   "price", "Construction year", "minimum nights"}
UnnamedColumns == {"Unnamed: 0"}

NoTable == [columns |-> {}, rows |-> <<>>]

\* ---------------------------------------------------------------- inputs
\* A typical listing.  The rows of one table differ from it in one column,
\* the same column for the whole table.
Typical ==
  [c \in RequiredColumns \cup OptionalColumns |->
     CASE c = "neighbourhood group" -> "Brooklyn"
       [] c = "room type" -> "Private room"
       [] c = "country" -> "United States"
       [] c = "neighbourhood" -> "Kensington"
       [] c \in {"price", "Construction year", "minimum nights"} -> Scale
       [] c = "availability_group" -> "Low"
       [] c = "host_is_big" -> 0]

Numbers == (0..MaxNum) \cup {NaNNum}

FilterRows ==
  {{[Typical EXCEPT !["neighbourhood group"] = v] : v \in {"Brooklyn", "Queens", NaN}},
   {[Typical EXCEPT !["room type"] = v] : v \in {"Private room", "Entire home/apt", NaN}},
   {[Typical EXCEPT !["country"] = v] : v \in {"United States", NaN}},
   {[Typical EXCEPT !["neighbourhood"] = v] : v \in {"Kensington", "Astoria"}},
   {[Typical EXCEPT !["price"] = v] : v \in Numbers},
   {[Typical EXCEPT !["Construction year"] = v] : v \in Numbers},
   {[Typical EXCEPT !["minimum nights"] = v] : v \in Numbers},
   {[Typical EXCEPT !["availability_group"] = v] : v \in {"Low", "High", NaN}},
   {[Typical EXCEPT !["host_is_big"] = v] : v \in {0, 1, NaNNum}}}

SessionRows ==
  {{[Typical EXCEPT !["neighbourhood group"] = v] : v \in {"Brooklyn", "Queens"}},
   {[Typical EXCEPT !["price"] = v] : v \in {0, Scale}},
   {[Typical EXCEPT !["Construction year"] = v] : v \in {0, Scale}},
   {[Typical EXCEPT !["minimum nights"] = v] : v \in {0, Scale}},
   {[Typical EXCEPT !["availability_group"] = v] : v \in {"Low", "High"}},
   {[Typical EXCEPT !["host_is_big"] = v] : v \in {0, 1}}}

\* the row with the index label read_csv gives it
WithIdx(r, i) == ("idx" :> i) @@ r

\* The CSV files: up to max rows drawn from one of the row sets, the index
\* artifact column, and any of the optional derived columns.
Files(RowSets, max) ==
  UNION {UNION {{[columns |-> RequiredColumns \cup UnnamedColumns \cup opt,
                  rows |-> [i \in 1..n |-> WithIdx(s[i], i)]] :
                    s \in [1..n -> Rows], opt \in SUBSET OptionalColumns} :
                 Rows \in RowSets} :
          n \in 0..max}

\* ---------------------------------------------------------------- load_data
\* df.loc[:, ~df.columns.str.contains("^Unnamed")]
DropUnnamed(t) == [t EXCEPT !.columns = @ \ UnnamedColumns]

\* pd.read_csv and the column cleanup
ReadFile(file) == DropUnnamed(file)

\* load_data without the memo
load_data_Uncached(memo, file, n) ==
  [df |-> ReadFile(file), cache |-> ReadFile(file), reads |-> n + 1]

\* @st.cache_data: the body runs only when no result is memoized.
load_data(memo, file, n) ==
  IF memo = NoTable
    THEN [df |-> ReadFile(file), cache |-> ReadFile(file), reads |-> n + 1]
    ELSE [df |-> memo, cache |-> memo, reads |-> n]

\* ---------------------------------------------------------------- sidebar
\* df[col]
Values(t, col) == {t.rows[i][col] : i \in DOMAIN t.rows}

\* the options without dropna(): the missing value is an option too
DropnaUnique_KeepMissing(t, col) == Values(t, col)

\* df[col].dropna().unique().tolist()
DropnaUnique(t, col) == Values(t, col) \ {NaN}

ng_options(t) == DropnaUnique(t, "neighbourhood group")
rt_options(t) == DropnaUnique(t, "room type")
co_options(t) == DropnaUnique(t, "country")

\* the selectbox exists only when the column does; otherwise ag = "All"
ag_options(t) ==
  IF "availability_group" \in t.columns
    THEN {All} \cup DropnaUnique(t, "availability_group")
    ELSE {All}

host_type_options(t) ==
  IF "host_is_big" \in t.columns THEN HostTypes ELSE {All}

\* Series.min() / Series.max() skip the missing values
Present(t, col) == Values(t, col) \ {NaNNum}
SeriesMin(S) == CHOOSE m \in S : \A x \in S : m <= x
SeriesMax(S) == CHOOSE m \in S : \A x \in S : m >= x

\* int(): truncation of a non-negative number
ToInt(x) == x \div Scale

\* int(df[col].min()), int(df[col].max())
SliderBounds(t, col) ==
  <<ToInt(SeriesMin(Present(t, col))), ToInt(SeriesMax(Present(t, col)))>>

\* st.sidebar.slider(label, lo, hi, (lo, hi)): a pair lo <= a <= b <= hi
SliderValues(b) ==
  {<<x, y>> \in (b[1]..b[2]) \X (b[1]..b[2]) : x <= y}

\* int() of a missing minimum raises: the sidebar needs a number per slider
SlidersRender(t) ==
  /\ Present(t, "price") # {}
  /\ Present(t, "Construction year") # {}
  /\ Present(t, "minimum nights") # {}

\* the values the widgets show on the first run
Defaults(t) ==
  [ng |-> ng_options(t), rt |-> rt_options(t), co |-> co_options(t),
   ag |-> All, host_type |-> All,
   price_range |-> SliderBounds(t, "price"),
   year_range |-> SliderBounds(t, "Construction year"),
   min_nights |-> SliderBounds(t, "minimum nights"),
   page |-> "Dashboard"]

\* every combination of widget values the sidebar can return for table t
Selections(t) ==
  [ng : SUBSET ng_options(t), rt : SUBSET rt_options(t),
   co : SUBSET co_options(t),
   ag : ag_options(t), host_type : host_type_options(t),
   price_range : SliderValues(SliderBounds(t, "price")),
   year_range : SliderValues(SliderBounds(t, "Construction year")),
   min_nights : SliderValues(SliderBounds(t, "minimum nights")),
   page : {"Dashboard"}]

\* ---------------------------------------------------------------- apply filters
\* isin with an empty list read as "no restriction"
isin_EmptyIsAll(v, S) == S = {} \/ v \in S

\* Series.isin(values)
isin(v, S) == v \in S

\* the range test with > for >=
InRange_Exclusive(v, range) ==
  /\ v # NaNNum
  /\ v > range[1] * Scale
  /\ v <= range[2] * Scale

\* (col >= range[0]) & (col <= range[1]); a missing value compares False
InRange(v, range) ==
  /\ v # NaNNum
  /\ v >= range[1] * Scale
  /\ v <= range[2] * Scale

\* the mask without its country test
Mask_NoCountry(t, s) ==
  [i \in DOMAIN t.rows |->
     /\ isin(t.rows[i]["neighbourhood group"], s.ng)
     /\ isin(t.rows[i]["room type"], s.rt)
     /\ InRange(t.rows[i]["price"], s.price_range)
     /\ InRange(t.rows[i]["Construction year"], s.year_range)
     /\ InRange(t.rows[i]["minimum nights"], s.min_nights)]

\* the boolean mask of the first selection, one entry per row
Mask(t, s) ==
  [i \in DOMAIN t.rows |->
     /\ isin(t.rows[i]["neighbourhood group"], s.ng)
     /\ isin(t.rows[i]["room type"], s.rt)
     /\ isin(t.rows[i]["country"], s.co)
     /\ InRange(t.rows[i]["price"], s.price_range)
     /\ InRange(t.rows[i]["Construction year"], s.year_range)
     /\ InRange(t.rows[i]["minimum nights"], s.min_nights)]

\* filtered[col] == v, one entry per row
Equals(t, col, v) == [i \in DOMAIN t.rows |-> t.rows[i][col] = v]

\* the positions a mask selects, in order
Selected(mask) ==
  SelectSeq([i \in DOMAIN mask |-> i], LAMBDA i : mask[i])

\* the selection followed by a slice that loses the first row
Keep_DropFirst(t, mask) ==
  [t EXCEPT !.rows =
     [j \in 1..(IF Selected(mask) = <<>> THEN 0 ELSE Len(Selected(mask)) - 1) |->
        @[Selected(mask)[j + 1]]]]

\* the selection returned in reverse order
Keep_Reversed(t, mask) ==
  [t EXCEPT !.rows =
     [j \in 1..Len(Selected(mask)) |->
        @[Selected(mask)[Len(Selected(mask)) + 1 - j]]]]

\* filtered[mask]: the rows whose mask is True, in order, same columns
Keep(t, mask) ==
  [t EXCEPT !.rows = [j \in 1..Len(Selected(mask)) |-> @[Selected(mask)[j]]]]

\* "Small" in host_type
ContainsSmall(h) == h = SmallHosts

\* the two host flags exchanged
HostFlag_Swapped(h) == IF h = SmallHosts THEN 1 ELSE 0

\* the host_is_big value the chosen host type keeps
HostFlag(h) == IF ContainsSmall(h) THEN 0 ELSE 1

ApplyFilters(t, s) ==
  LET f1 == Keep(t, Mask(t, s))
      f2 == IF s.ag # All
              THEN Keep(f1, Equals(f1, "availability_group", s.ag))
              ELSE f1
      f3 == IF s.host_type # All
              THEN Keep(f2, Equals(f2, "host_is_big", HostFlag(s.host_type)))
              ELSE f2
  IN f3

\* the section filtering df itself, without the copy
FilterSection_InPlace(t, s) ==
  [df |-> ApplyFilters(t, s), filtered |-> ApplyFilters(t, s)]

\* the names df and filtered after the section: filtered starts as a copy
FilterSection(t, s) == [df |-> t, filtered |-> ApplyFilters(t, s)]

\* ---------------------------------------------------------------- pages
\* the rows of t whose column col holds v
Count(t, col, v) == Cardinality({i \in DOMAIN t.rows : t.rows[i][col] = v})

\* value_counts() / groupby(col): one bar per value present, missing dropped
GroupBars(chart, t, col) ==
  {[chart |-> chart, label |-> v, rows |-> Count(t, col, v)] :
     v \in DropnaUnique(t, col)}

TopN == 10

\* Series.head(n) of value_counts(): the n most frequent
head(bars, n) ==
  IF Cardinality(bars) <= n
    THEN bars
    ELSE CHOOSE S \in SUBSET bars :
           /\ Cardinality(S) = n
           /\ \A a \in S, b \in bars \ S : a.rows >= b.rows

\* the page charting the unfiltered df instead of df2
MarketSupply_FromSource(df2) ==
  [err |-> "none",
   bars |-> GroupBars("Listings per Neighbourhood Group", df,
                      "neighbourhood group")
            \cup GroupBars("Listings per Room Type", df, "room type")
            \cup GroupBars("Listings per Country", df, "country")
            \cup head(GroupBars("Top 10 Neighbourhoods", df,
                                "neighbourhood"), TopN)]

MarketSupply(df2) ==
  [err |-> "none",
   bars |-> GroupBars("Listings per Neighbourhood Group", df2,
                      "neighbourhood group")
            \cup GroupBars("Listings per Room Type", df2, "room type")
            \cup GroupBars("Listings per Country", df2, "country")
            \cup head(GroupBars("Top 10 Neighbourhoods", df2,
                                "neighbourhood"), TopN)]

PriceStructure(df2) ==
  [err |-> "none",
   bars |-> GroupBars("Average Price by Neighbourhood Group", df2,
                      "neighbourhood group")]

DemandOccupancy(df2) ==
  [err |-> "none",
   bars |-> IF "availability_group" \in df2.columns
              THEN GroupBars("Average Price by Availability Group", df2,
                             "availability_group")
              ELSE {}]

\* the two host charts have fixed labels; counts.get(k, 0) / avg.get(k, 0)
\* give a missing group the height 0
HostBars(chart, small, big, df2) ==
  {[chart |-> chart, label |-> small,
    rows |-> Count(df2, "host_is_big", 0)],
   [chart |-> chart, label |-> big,
    rows |-> Count(df2, "host_is_big", 1)]}

\* df2["host_is_big"] is read with no test for the column
HostColumnMissing(df2) == "host_is_big" \notin df2.columns

HostDynamics(df2) ==
  LET rating == GroupBars("Average Rating by Room Type", df2,
                          "room type")
  IN IF HostColumnMissing(df2)
       THEN [err |-> "KeyError", bars |-> rating]
       ELSE [err |-> "none",
             bars |-> rating
               \cup HostBars("Host Type Distribution",
                             "Small Hosts (<=3)", "Big Hosts (>3)", df2)
               \cup HostBars("Average Price by Host Type",
                             "Small Hosts", "Big Hosts", df2)]

\* the page chosen by the radio; the other pages chart no grouped aggregate
Render(page, df2) ==
  CASE page = "Market Supply" -> MarketSupply(df2)
    [] page = "Price Structure" -> PriceStructure(df2)
    [] page = "Demand & Occupancy" -> DemandOccupancy(df2)
    [] page = "Host Dynamics" -> HostDynamics(df2)
    [] OTHER -> [err |-> "none", bars |-> {}]

NoOutput == [err |-> "none", bars |-> {}]

\* ---------------------------------------------------------------- the script
\* the pass with st.session_state["df"] set only when the key is not there yet
RunScript_SetOnce(s) ==
  LET ld == load_data(cache, csv, reads)
      fs == FilterSection(ld.df, s)
      kept == IF session_df = NoTable THEN fs.filtered ELSE session_df
  IN /\ cache' = ld.cache
     /\ reads' = ld.reads
     /\ df' = fs.df
     /\ w' = s
     /\ session_df' = kept
     /\ out' = Render(s.page, kept)
     /\ pc' = "rendered"
     /\ UNCHANGED csv

\* One rendering pass with the widget values s: the whole script, top to
\* bottom.
RunScript(s) ==
  LET ld == load_data(cache, csv, reads)
      fs == FilterSection(ld.df, s)
  IN /\ cache' = ld.cache
     /\ reads' = ld.reads
     /\ df' = fs.df
     /\ w' = s
     /\ session_df' = fs.filtered
     /\ out' = Render(s.page, fs.filtered)
     /\ pc' = "rendered"
     /\ UNCHANGED csv

\* the table the widgets of the next pass are built from
Loaded == load_data(cache, csv, reads).df

Init ==
  /\ csv \in {f \in Files(SessionRows, MaxSessionRows) : SlidersRender(f)}
  /\ cache = NoTable
  /\ reads = 0
  /\ df = NoTable
  /\ w = Defaults(csv)
  /\ session_df = NoTable
  /\ out = NoOutput
  /\ pc = "start"

\* the browser opens the page: the first pass, every widget at its default
FirstRun ==
  /\ pc = "start"
  /\ RunScript(Defaults(Loaded))

ChangeNg ==
  /\ pc = "rendered"
  /\ \E v \in SUBSET ng_options(Loaded) :
       v # w.ng /\ RunScript([w EXCEPT !.ng = v])

ChangeRt ==
  /\ pc = "rendered"
  /\ \E v \in SUBSET rt_options(Loaded) :
       v # w.rt /\ RunScript([w EXCEPT !.rt = v])

ChangeCo ==
  /\ pc = "rendered"
  /\ \E v \in SUBSET co_options(Loaded) :
       v # w.co /\ RunScript([w EXCEPT !.co = v])

ChangeAg ==
  /\ pc = "rendered"
  /\ \E v \in ag_options(Loaded) :
       v # w.ag /\ RunScript([w EXCEPT !.ag = v])

ChangeHostType ==
  /\ pc = "rendered"
  /\ \E v \in host_type_options(Loaded) :
       v # w.host_type /\ RunScript([w EXCEPT !.host_type = v])

ChangePrice ==
  /\ pc = "rendered"
  /\ \E v \in SliderValues(SliderBounds(Loaded, "price")) :
       v # w.price_range /\ RunScript([w EXCEPT !.price_range = v])

ChangeYear ==
  /\ pc = "rendered"
  /\ \E v \in SliderValues(SliderBounds(Loaded, "Construction year")) :
       v # w.year_range /\ RunScript([w EXCEPT !.year_range = v])

ChangeMinNights ==
  /\ pc = "rendered"
  /\ \E v \in SliderValues(SliderBounds(Loaded, "minimum nights")) :
       v # w.min_nights /\ RunScript([w EXCEPT !.min_nights = v])

ChangePage ==
  /\ pc = "rendered"
  /\ \E v \in Pages :
       v # w.page /\ RunScript([w EXCEPT !.page = v])

Next ==
  \/ FirstRun
  \/ ChangeNg
  \/ ChangeRt
  \/ ChangeCo
  \/ ChangeAg
  \/ ChangeHostType
  \/ ChangePrice
  \/ ChangeYear
  \/ ChangeMinNights
  \/ ChangePage

Spec == Init /\ [][Next]_vars

\* ---------------------------------------------------------------- the pipeline alone
\* The filter section as a function of a loaded table and a selection.
InitFilter ==
  /\ csv \in {f \in Files(FilterRows, MaxRows) : SlidersRender(f)}
  /\ cache = ReadFile(csv)
  /\ reads = 1
  /\ df = ReadFile(csv)
  /\ w \in Selections(ReadFile(csv))
  /\ session_df = NoTable
  /\ out = NoOutput
  /\ pc = "selected"

Filter ==
  /\ pc = "selected"
  /\ LET fs == FilterSection(df, w)
     IN /\ df' = fs.df
        /\ session_df' = fs.filtered
  /\ pc' = "filtered"
  /\ UNCHANGED <<csv, cache, reads, w, out>>

NextFilter == Filter

SpecFilter == InitFilter /\ [][NextFilter]_vars

\* ---------------------------------------------------------------- properties
\* Source row i is a row of the filtered table.
Kept(i) == \E j \in DOMAIN session_df.rows : session_df.rows[j] = df.rows[i]

\* The categorical and range constraints, as the specification states them.
CatRange(r, s) ==
  /\ r["neighbourhood group"] \in s.ng
  /\ r["room type"] \in s.rt
  /\ r["country"] \in s.co
  /\ r["price"] # NaNNum
  /\ s.price_range[1] * Scale <= r["price"] /\ r["price"] <= s.price_range[2] * Scale
  /\ r["Construction year"] # NaNNum
  /\ s.year_range[1] * Scale <= r["Construction year"]
  /\ r["Construction year"] <= s.year_range[2] * Scale
  /\ r["minimum nights"] # NaNNum
  /\ s.min_nights[1] * Scale <= r["minimum nights"]
  /\ r["minimum nights"] <= s.min_nights[2] * Scale

\* The two equality constraints, each binding only when not "All".
AgOk(r, s) == s.ag = All \/ r["availability_group"] = s.ag
HostOk(r, s) ==
  /\ s.host_type = SmallHosts => r["host_is_big"] = 0
  /\ s.host_type = BigHosts => r["host_is_big"] = 1

\* C1: the filtered table contains a source row if and only if the row
\* satisfies every constraint at once: the three categorical values are in
\* their selected sets, the three numbers are within their ranges, and the
\* row matches each equality filter that is not "All".
C1_FilteredIffAllConstraints ==
  pc = "filtered" =>
    \A i \in DOMAIN df.rows :
      Kept(i) <=> (CatRange(df.rows[i], w) /\ AgOk(df.rows[i], w) /\ HostOk(df.rows[i], w))

\* a row kept and another dropped by the country selection alone
C1_Witness ==
  /\ pc = "filtered"
  /\ \E i, j \in DOMAIN df.rows :
       /\ Kept(i)
       /\ ~Kept(j)
       /\ df.rows[j]["country"] \notin w.co
       /\ CatRange(df.rows[j], [w EXCEPT !.co = {df.rows[j]["country"]}])

\* C2: an empty selection in any one of the three categorical multiselects
\* leaves zero rows, whatever the other widgets say.
C2_EmptySelectionEmptyResult ==
  (pc = "filtered" /\ (w.ng = {} \/ w.rt = {} \/ w.co = {})) =>
    Len(session_df.rows) = 0

\* only the room type selection is empty, and a row passes everything else
C2_Witness ==
  /\ pc = "filtered"
  /\ w.rt = {} /\ w.ng # {} /\ w.co # {}
  /\ \E i \in DOMAIN df.rows :
       CatRange(df.rows[i], [w EXCEPT !.rt = {df.rows[i]["room type"]}])
  /\ Len(session_df.rows) = 0

\* A row passes every constraint except, possibly, the range named col.
OthersOk(r, s, col) ==
  /\ AgOk(r, s)
  /\ HostOk(r, s)
  /\ CatRange(r, [s EXCEPT ![col] = <<0, MaxNum>>])

AtBound(v, range) == v = range[1] * Scale \/ v = range[2] * Scale

\* C3: the three range filters are inclusive on both bounds: a row whose
\* value equals the selected lower or upper bound is retained when it
\* passes the other constraints.
C3_RangesInclusive ==
  pc = "filtered" =>
    \A i \in DOMAIN df.rows :
      LET r == df.rows[i]
      IN /\ (AtBound(r["price"], w.price_range) /\ OthersOk(r, w, "price_range"))
              => Kept(i)
         /\ (AtBound(r["Construction year"], w.year_range) /\ OthersOk(r, w, "year_range"))
              => Kept(i)
         /\ (AtBound(r["minimum nights"], w.min_nights) /\ OthersOk(r, w, "min_nights"))
              => Kept(i)

\* lower bound = upper bound: the row at the bound is kept, another is cut
C3_Witness ==
  /\ pc = "filtered"
  /\ w.price_range[1] = w.price_range[2]
  /\ \E i, j \in DOMAIN df.rows :
       /\ df.rows[i]["price"] = w.price_range[1] * Scale
       /\ Kept(i)
       /\ df.rows[j]["price"] > w.price_range[2] * Scale
       /\ ~Kept(j)

\* C4: an equality filter acts only when its column exists and the choice is
\* not "All"; otherwise the result is that of the categorical and range
\* constraints alone.  When active, the availability filter keeps the rows
\* whose availability_group is the chosen value, "Small Hosts" the rows with
\* host_is_big = 0 and "Big Hosts" the rows with host_is_big = 1.
C4_EqualityFilters ==
  pc = "filtered" =>
    LET base == SelectSeq(df.rows, LAMBDA r : CatRange(r, w))
        byAg == IF "availability_group" \in df.columns /\ w.ag # All
                  THEN SelectSeq(base, LAMBDA r : r["availability_group"] = w.ag)
                  ELSE base
        byHost == IF "host_is_big" \in df.columns /\ w.host_type # All
                    THEN IF w.host_type = SmallHosts
                           THEN SelectSeq(byAg, LAMBDA r : r["host_is_big"] = 0)
                           ELSE SelectSeq(byAg, LAMBDA r : r["host_is_big"] = 1)
                    ELSE byAg
    IN session_df.rows = byHost

\* "Big Hosts" keeps a big host's row and drops a small host's row
C4_Witness ==
  /\ pc = "filtered"
  /\ w.host_type = BigHosts
  /\ \E i, j \in DOMAIN df.rows :
       /\ Kept(i) /\ df.rows[i]["host_is_big"] = 1
       /\ ~Kept(j) /\ df.rows[j]["host_is_big"] = 0 /\ CatRange(df.rows[j], w)

\* C9: the filtered table is a sub-sequence of the source table: every
\* output row is a source row, none is added or duplicated, the relative
\* order is the source's, the columns are the source's, and so the row count
\* never exceeds the source's.
C9_SubSequence ==
  pc = "filtered" =>
    /\ session_df.columns = df.columns
    /\ Len(session_df.rows) <= Len(df.rows)
    /\ \A j \in DOMAIN session_df.rows :
         /\ session_df.rows[j]["idx"] \in DOMAIN df.rows
         /\ session_df.rows[j] = df.rows[session_df.rows[j]["idx"]]
    /\ \A j, k \in DOMAIN session_df.rows :
         j < k => session_df.rows[j]["idx"] < session_df.rows[k]["idx"]

\* two rows kept in the source's order, the first source row dropped or not
C9_Witness ==
  /\ pc = "filtered"
  /\ Len(session_df.rows) >= 2
  /\ Len(session_df.rows) < Len(df.rows)

\* C10: applying the pipeline with the same selection to its own output
\* gives the same table as applying it once to the source.
C10_Idempotent ==
  pc = "filtered" => ApplyFilters(session_df, w) = session_df

\* the first application dropped a row and kept another
C10_Witness ==
  /\ pc = "filtered"
  /\ Len(session_df.rows) >= 1
  /\ Len(session_df.rows) < Len(df.rows)
  /\ w.ag # All

\* C5: with availability_group and/or host_is_big missing from the table,
\* every page renders without an error for every selection.
C5_MissingColumnsRenderWithoutError ==
  (pc = "rendered" /\ ~(OptionalColumns \subseteq df.columns)) => out.err = "none"

HostCharts == {"Host Type Distribution", "Average Price by Host Type"}
SmallLabels == {"Small Hosts (<=3)", "Small Hosts"}

\* The category a bar stands for occurs in a row of table t.
Occurs(b, t) ==
  \E i \in DOMAIN t.rows :
    LET r == t.rows[i]
    IN IF b.chart \in HostCharts
         THEN r["host_is_big"] = (IF b.label \in SmallLabels THEN 0 ELSE 1)
         ELSE b.label =
                CASE b.chart \in {"Listings per Neighbourhood Group",
                                  "Average Price by Neighbourhood Group"}
                       -> r["neighbourhood group"]
                  [] b.chart \in {"Listings per Room Type",
                                  "Average Rating by Room Type"} -> r["room type"]
                  [] b.chart = "Listings per Country" -> r["country"]
                  [] b.chart = "Top 10 Neighbourhoods" -> r["neighbourhood"]
                  [] b.chart = "Average Price by Availability Group"
                       -> r["availability_group"]

\* C6 as stated: on every page every bar of a grouped aggregate stands for a
\* category that occurs in at least one row of the filtered table.
C6_OnlyCategoriesPresent ==
  pc = "rendered" => \A b \in out.bars : Occurs(b, session_df)

\* C6 as amended: that holds of every grouped aggregate except the two host
\* type charts of Host Dynamics, which always show both of their fixed
\* labels, a host type with no row in the filtered table as a bar of height 0.
C6_OnlyCategoriesPresentExceptHostCharts ==
  pc = "rendered" =>
    /\ \A b \in out.bars : b.chart \notin HostCharts => Occurs(b, session_df)
    /\ \A b \in out.bars :
         (b.chart \in HostCharts /\ ~Occurs(b, session_df)) => b.rows = 0
    /\ (w.page = "Host Dynamics" /\ out.err = "none") =>
         \A c \in HostCharts :
           Cardinality({b \in out.bars : b.chart = c}) = 2

\* Market Supply after a selection removed a neighbourhood group that the
\* source has: the page still charts the groups that remain
C6_Witness ==
  /\ pc = "rendered"
  /\ w.page = "Market Supply"
  /\ \E i \in DOMAIN df.rows :
       \A j \in DOMAIN session_df.rows :
         session_df.rows[j]["neighbourhood group"] # df.rows[i]["neighbourhood group"]
  /\ \E b \in out.bars : b.chart = "Listings per Neighbourhood Group"

\* C7: over any sequence of passes the body of load_data (the archive
\* expansion and the CSV read) runs at most once: the first call reads, every
\* later call returns the memoized table.
C7_FileReadAtMostOnce ==
  /\ reads <= 1
  /\ pc = "rendered" => (reads = 1 /\ cache = ReadFile(csv))

\* a pass after the first one: a page switch and a changed selection
C7_Witness ==
  /\ pc = "rendered"
  /\ w.page # "Dashboard"
  /\ w.ng = {}
  /\ reads = 1

\* C8: after any sequence of passes the source table df has the rows, the
\* order, the columns and the values it had after load, so a pass with the
\* default selection gives what the first pass gave.
C8_SourceNeverMutated ==
  pc = "rendered" =>
    /\ df = ReadFile(csv)
    /\ [w EXCEPT !.page = "Dashboard"] = Defaults(ReadFile(csv))
         => session_df = ApplyFilters(ReadFile(csv), Defaults(ReadFile(csv)))

\* a later pass with the default selection, on a table of several rows
C8_Witness ==
  /\ pc = "rendered"
  /\ Len(df.rows) >= 2
  /\ w.page = "Price Structure"
  /\ [w EXCEPT !.page = "Dashboard"] = Defaults(df)
  /\ session_df = df

\* C11: after any sequence of widget changes and page switches, the table
\* the active page renders from is the full source table filtered with the
\* selections of the current pass: not a result of an earlier pass, and not a
\* filter applied on top of an earlier filtered table.
C11_PageReadsCurrentFilter ==
  pc = "rendered" =>
    /\ session_df.columns = ReadFile(csv).columns
    /\ session_df.rows =
         SelectSeq(ReadFile(csv).rows,
                   LAMBDA r : CatRange(r, w) /\ AgOk(r, w) /\ HostOk(r, w))
    /\ out = Render(w.page, session_df)

\* a later pass, on another page, with a narrowed neighbourhood selection and
\* a host type chosen: some rows shown, some not
C11_Witness ==
  /\ pc = "rendered"
  /\ w.page = "Host Dynamics"
  /\ w.ng # {} /\ w.ng # ng_options(df)
  /\ w.host_type = SmallHosts
  /\ Len(session_df.rows) >= 1
  /\ Len(session_df.rows) < Len(df.rows)

CategoricalColumns ==
  {"neighbourhood group", "room type", "country"}
NumericColumns == {"price", "Construction year", "minimum nights"}

\* Row r has a missing value in one of the six filtered columns.
HasMissing(r) ==
  \/ \E c \in CategoricalColumns : r[c] = NaN
  \/ \E c \in NumericColumns : r[c] = NaNNum

\* C12: for every selection the widgets can return, the default one of the
\* first render included, no row with a missing neighbourhood group, room
\* type, country, price, Construction year or minimum nights is in the
\* filtered table: a missing category is never among the selected values,
\* and a missing number passes no range test.
C12_MissingValuesNeverKept ==
  /\ NaN \notin w.ng \cup w.rt \cup w.co
  /\ pc = "filtered" =>
       \A j \in DOMAIN session_df.rows : ~HasMissing(session_df.rows[j])

\* the default selection on a table with a row whose room type is missing:
\* that row is out, the others are in
C12_Witness ==
  /\ pc = "filtered"
  /\ w = Defaults(df)
  /\ \E i \in DOMAIN df.rows : df.rows[i]["room type"] = NaN /\ ~Kept(i)
  /\ Len(session_df.rows) >= 1

====
